---- MODULE Spec2Model ----
(***************************************************************************)
(* approxism: approximate dictionary-term matching.                        *)
(*                                                                         *)
(* The module models                                                       *)
(*   - Tokeniser.tokenise and Tokeniser.sentences   (tokeniser.py),        *)
(*   - Matcher.Text.__init__ / Matcher.Text.match   (matcher.py),          *)
(*   - Extractor.extract                            (extractor.py).        *)
(*                                                                         *)
(* Strings are sequences of characters, a character is a one-element       *)
(* name ("a", " ", ...; "u2019" stands for the code point U+2019).         *)
(* Python indices are 0-based and half-open; Slice converts.               *)
(* A score is a fraction [num, den]; a threshold k stands for              *)
(* k / ScoreScale.                                                         *)
(***************************************************************************)
EXTENDS Integers, Sequences, FiniteSets, Bags, TLC

VARIABLES
    pc,             \* position of the generator that is being consumed
    text,           \* the string handed to the operation
    tk_offset,      \* Tokeniser.tokenise: offset
    tokens_out,     \* Tokeniser.tokenise: tokens yielded so far
    punkt_end,      \* sentence collaborator: end of the last slice it returned
    begin,          \* Tokeniser.sentences: begin
    sentences_out,  \* Tokeniser.sentences: sentences yielded so far
    strip_stopwords,\* Matcher option
    omit_whitespaces, \* Matcher option
    sentence,       \* Matcher.TokenSequence of the sentence being matched
    stream,         \* candidates the similarity engine has produced so far
    best_match,     \* Matcher.Text.match: best_match (None or a candidate)
    out,            \* Matcher.Text.match: Matcher.Match values yielded so far
    emitted,        \* history: for each yielded match its sentence, term, window
    threshold,      \* threshold handed to the similarity engine
    default_threshold, \* Extractor.default_threshold
    dictionary,     \* Extractor._dictionary: sequence of [term, record]
    sentence_str,   \* Extractor.extract: sentence_str
    sent_idx,       \* Extractor.extract: number of sentences pulled so far
    term_idx,       \* Extractor.extract: position in terms.items()
    offset,         \* Extractor.extract: offset
    matches,        \* Extractor.extract: Extractor.Match values yielded so far
    pattern,        \* Matcher.sequence_bigrams: the string before tokens were added
    bigrams,        \* Matcher.sequence_bigrams: its result for text
    language,       \* Matcher.__init__: language
    strict_language,\* Matcher.__init__: strict_language
    punkt_models,   \* languages that have a punkt model (<language>.pickle)
    stopword_files, \* languages that have a stop-word file (<language>.txt)
    matcher,        \* the Matcher constructed (None before), or the error raised
    extractor,      \* the Extractor constructed (None before)
    min_len,        \* Lowercase.min_len
    except_caps,    \* Lowercase.except_caps
    tokens_in,      \* Lowercase.transform: tokens not yet pulled
    transformed,    \* Lowercase.transform: tokens yielded so far
    original,       \* the Extractor that is serialised
    dump,           \* Extractor.serialise: the JSON document (None before)
    restored,       \* Extractor.deserialise: its result (None before)
    text_sentences, \* Matcher.Text: _sentences
    text_offset,    \* Matcher.Text.__init__: offset
    text_best,      \* Matcher.Text.match of Matcher.text(text): best_match
    text_out        \* Matcher.Text.match of Matcher.text(text): matches yielded

vars == <<pc, text, tk_offset, tokens_out, punkt_end, begin, sentences_out,
          strip_stopwords, omit_whitespaces, sentence, stream, best_match, out, emitted,
          threshold, default_threshold, dictionary, sentence_str, sent_idx, term_idx,
          offset, matches, pattern, bigrams, language, strict_language,
          punkt_models, stopword_files, matcher, extractor, min_len, except_caps,
          tokens_in, transformed, original, dump, restored, text_sentences,
          text_offset, text_best, text_out>>

tokeniseVars  == <<tk_offset, tokens_out>>
sentencesVars == <<punkt_end, begin, sentences_out>>
matcherVars   == <<strip_stopwords, omit_whitespaces>>
matchVars     == <<sentence, stream, best_match, out, emitted>>
extractVars   == <<default_threshold, dictionary, sentence_str, sent_idx,
                   term_idx, offset, matches>>
bigramVars    == <<pattern, bigrams>>
constructVars == <<language, strict_language, punkt_models, stopword_files,
                   matcher, extractor>>
lowercaseVars == <<min_len, except_caps, tokens_in, transformed>>
serialiseVars == <<original, dump, restored>>
stitchVars    == <<text_sentences, text_offset, text_best, text_out>>

\* Optional values: None, or Some(v) holding v
None == <<>>
Some(v) == <<v>>
Value(o) == o[1]

(***************************************************************************)
(* Bounds                                                                  *)
(***************************************************************************)
MaxStringLen == 4       \* longest string given to tokenise
MaxTextLen == 4         \* longest text given to sentences
MaxExtractLen == 3      \* longest text given to extract
MaxSentenceLen == 3     \* longest sentence given to Matcher.sentence
MaxCandidates == 3      \* most candidates the engine produces for one query
ScoreScale == 4         \* thresholds and the scores of SpecMatch are k / ScoreScale

(***************************************************************************)
(* Strings                                                                 *)
(***************************************************************************)
\* Scores: fractions num / den with den > 0
Score(n, d) == [num |-> n, den |-> d]
ScoreLT(x, y) == x.num * y.den < y.num * x.den
ScoreLE(x, y) == x.num * y.den <= y.num * x.den
ScoreEQ(x, y) == x.num * y.den = y.num * x.den
\* score > k / ScoreScale
AboveThreshold(x, k) == x.num * ScoreScale > k * x.den

\* s[b:e] of Python for 0 <= b, e
Slice(s, b, e) == SubSeq(s, b + 1, IF e > Len(s) THEN Len(s) ELSE e)

Strings(alphabet, n) == UNION {[1..k -> alphabet] : k \in 0..n}

RECURSIVE Concat(_)
Concat(ss) == IF ss = <<>> THEN <<>> ELSE Head(ss) \o Concat(Tail(ss))

\* str.index(sub, start): lowest i >= start with s[i:i+len(sub)] = sub, -1
\* standing for ValueError
Index(s, sub, start) ==
    LET found == {i \in start..(Len(s) - Len(sub)) : Slice(s, i, i + Len(sub)) = sub}
    IN  IF found = {} THEN -1
        ELSE CHOOSE i \in found : \A j \in found : i <= j

(***************************************************************************)
(* tokeniser.py: character classes                                         *)
(***************************************************************************)
\* The characters of the model
Chars == {"a", "b", "'", "u2019", ",", " "}

\* unicodedata.category(char)[0] == 'P' among Chars
UnicodeP == {"'", "u2019", ",", "!", "?"}

\* string.punctuation among Chars
AsciiPunctuation == {"'", ",", "!", "?"}

\* the characters of the literal of line 27: U+0027, U+00E2, U+20AC, U+2122
ExceptedChars == {"'", "u00E2", "u20AC", "u2122"}

punctuation_chars == (UnicodeP \cup AsciiPunctuation) \ ExceptedChars

punctuation == punctuation_chars
whitespaces == {" "}
split_chars == punctuation \cup whitespaces

word  == "word"
ws    == "WS"
punct == "punct"

Token(string, b, e, tag) == [string |-> string, begin |-> b, end |-> e, tag |-> tag]

(***************************************************************************)
(* Tokeniser.tokenise                                                      *)
(***************************************************************************)
\* _word_re = [^split_chars]+
IsWordChar(ch) == ch \notin split_chars

\* re.finditer: the next match at or after pos starts at the first character
\* outside the split set ...
RECURSIVE MatchBegin(_, _)
MatchBegin(s, pos) ==
    IF pos < Len(s) /\ ~IsWordChar(s[pos + 1]) THEN MatchBegin(s, pos + 1) ELSE pos

\* ... and is greedy: it ends where the run of such characters ends
RECURSIVE MatchEnd(_, _)
MatchEnd(s, pos) ==
    IF pos < Len(s) /\ IsWordChar(s[pos + 1]) THEN MatchEnd(s, pos + 1) ELSE pos

HasMatch(s, pos) == MatchBegin(s, pos) < Len(s)

split_tag(token) ==
    IF \E i \in 1..Len(token) : token[i] \in punctuation THEN punct ELSE ws

\* the tokens one iteration of the finditer loop yields, from offset
TokeniseMatchTokens(s, off) ==
    LET b == MatchBegin(s, off)
        e == MatchEnd(s, b)
        splitTok == IF off < b
                    THEN <<Token(Slice(s, off, b), off, b, split_tag(Slice(s, off, b)))>>
                    ELSE <<>>
    IN  splitTok \o <<Token(Slice(s, b, e), b, e, word)>>

\* (mutation of TokeniseTrailingTokens: the trailing split token is forgotten)
TokeniseTrailingTokens_Forgotten(s, off) == <<>>

\* the token yielded after the loop
TokeniseTrailingTokens(s, off) ==
    IF off < Len(s)
    THEN <<Token(Slice(s, off, Len(s)), off, Len(s), split_tag(Slice(s, off, Len(s))))>>
    ELSE <<>>

\* list(Tokeniser.tokenise(s))
RECURSIVE TokeniseFrom(_, _)
TokeniseFrom(s, off) ==
    IF HasMatch(s, off)
    THEN TokeniseMatchTokens(s, off) \o TokeniseFrom(s, MatchEnd(s, MatchBegin(s, off)))
    ELSE TokeniseTrailingTokens(s, off)

tokenise(s) == TokeniseFrom(s, 0)

(***************************************************************************)
(* Tokeniser.sentences                                                     *)
(***************************************************************************)
\* The characters of the texts that are split into sentences
TextChars == {"a", "b", " ", ","}

\* self._punkt.tokenize(text): an ordered list of non-empty substrings of
\* text, each starting at or after the end of the previous one.  The
\* next substring after one that ended at `last` is text[s:e] for some
\* last <= s < e <= len(text).
PunktSlices(t, last) ==
    {se \in (last..Len(t)) \X (last..Len(t)) : se[1] < se[2]}

\* end = text.index(sentence, begin) + len(sentence)
SentenceEnd(t, sent, b) == Index(t, sent, b) + Len(sent)

\* (mutation of SentenceYield: the collaborator's substring is yielded as is)
SentenceYield_Substring(t, sent, b) == sent

\* yield text[begin:end]
SentenceYield(t, sent, b) == Slice(t, b, SentenceEnd(t, sent, b))

(***************************************************************************)
(* matcher.py: Matcher                                                     *)
(***************************************************************************)
\* Stopwords(language): the lines of stopwords/<language>.txt among the
\* words of the model ("a", "is", "in", "to", "the", "which" and "how" are
\* English stop words)
Stopwords(lang) ==
    IF lang = "english"
    THEN {<<"a">>, <<"i", "s">>, <<"i", "n">>, <<"t", "o">>, <<"t", "h", "e">>,
          <<"w", "h", "i", "c", "h">>, <<"h", "o", "w">>}
    ELSE {}
NoStopwords == {}

default_language == "english"

\* Matcher.__init__: self._stopwords
stopwords == IF strip_stopwords THEN Stopwords(default_language) ELSE NoStopwords

\* (mutation of is_strip_token: stop words are not looked up)
is_strip_token_TagOnly(token) == token.tag # word

\* Matcher.is_strip_token
is_strip_token(token) == token.tag # word \/ token.string \in stopwords

\* pysdcxx.Bigrams(string): the multiset of the pairs of consecutive
\* characters
Bigrams(str) ==
    LET pairs == {<<str[i], str[i + 1]>> : i \in 1..(Len(str) - 1)}
    IN  [p \in pairs |->
            Cardinality({i \in 1..(Len(str) - 1) : <<str[i], str[i + 1]>> = p})]

\* (mutation of token_bigrams: a single character is not padded)
token_bigrams_Unpadded(token) ==
    IF token.tag = ws /\ omit_whitespaces THEN EmptyBag ELSE Bigrams(token.string)

\* Matcher.token_bigrams
token_bigrams(token) ==
    IF token.tag = ws /\ omit_whitespaces THEN EmptyBag
    ELSE IF Len(token.string) = 1 THEN Bigrams(token.string \o <<" ">>)
    ELSE Bigrams(token.string)

\* (mutation of StripLeading: only one leading token is dropped)
StripLeading_Once(ts) ==
    IF ts # <<>> /\ is_strip_token(ts[1]) THEN Tail(ts) ELSE ts

\* `while len(tokens) and is_strip_token(tokens[0]): tokens.pop(0)`
RECURSIVE StripLeading(_)
StripLeading(ts) ==
    IF ts # <<>> /\ is_strip_token(ts[1]) THEN StripLeading(Tail(ts)) ELSE ts

\* `while len(tokens) and is_strip_token(tokens[-1]): tokens.pop(-1)`
RECURSIVE StripTrailing(_)
StripTrailing(ts) ==
    IF ts # <<>> /\ is_strip_token(ts[Len(ts)])
    THEN StripTrailing(SubSeq(ts, 1, Len(ts) - 1))
    ELSE ts

RECURSIVE SumBigrams(_)
SumBigrams(ts) ==
    IF ts = <<>> THEN EmptyBag ELSE token_bigrams(ts[1]) (+) SumBigrams(Tail(ts))

\* Matcher.sequence_bigrams
sequence_bigrams(str) == SumBigrams(StripTrailing(StripLeading(tokenise(str))))

\* (mutation of TokenSequence: the offset of the sentence is not added to
\* the spans of the tokens)
TokenSequence_Unshifted(sent, off) ==
    LET ts == tokenise(sent)
    IN  [tokens  |-> ts,
         matcher |-> [i \in 1..Len(ts) |->
                        [bigrams |-> token_bigrams(ts[i]),
                         strip   |-> is_strip_token(ts[i])]]]

\* Matcher.Text.__init__, one sentence starting at off: the tokens with off
\* added to their spans, and what was appended to the SequenceMatcher
TokenSequence(sent, off) ==
    LET ts == tokenise(sent)
    IN  [tokens  |-> [i \in 1..Len(ts) |->
                        [ts[i] EXCEPT !.begin = @ + off, !.end = @ + off]],
         matcher |-> [i \in 1..Len(ts) |->
                        [bigrams |-> token_bigrams(ts[i]),
                         strip   |-> is_strip_token(ts[i])]]]

\* The boundaries a window of the engine may have: token indices
\* begin < end, neither the first nor the last token appended with strip = true
EngineSpans(seq) ==
    {be \in (0..Len(seq.matcher)) \X (0..Len(seq.matcher)) :
        /\ be[1] < be[2]
        /\ ~seq.matcher[be[1] + 1].strip
        /\ ~seq.matcher[be[2]].strip}

Candidate(b, e, sc) == [begin |-> b, end |-> e, score |-> sc]

\* SequenceMatcher.match(bigrams, threshold) for any bigrams: a window may
\* have any score above the threshold
AnyWindows(seq, thr) ==
    {c \in {Candidate(be[1], be[2], Score(k, ScoreScale)) :
                be \in EngineSpans(seq), k \in 0..ScoreScale} :
        AboveThreshold(c.score, thr)}

\* ... reported in non-decreasing begin order
AnyNext(seq, thr, sofar) ==
    {c \in AnyWindows(seq, thr) :
        sofar # <<>> => sofar[Len(sofar)].begin <= c.begin}

\* the bigrams of the tokens begin .. end - 1 appended to the engine
RECURSIVE WindowBigrams(_, _, _)
WindowBigrams(seq, b, e) ==
    IF b >= e THEN EmptyBag
    ELSE seq.matcher[b + 1].bigrams (+) WindowBigrams(seq, b + 1, e)

\* size of the element-wise-min intersection of two multisets
Intersection(x, y) ==
    LET common == DOMAIN x \cap DOMAIN y
    IN  BagCardinality([p \in common |-> IF x[p] < y[p] THEN x[p] ELSE y[p]])

\* score = 2 * |intersection| / (|window| + |query|)
Dice(x, y) == Score(2 * Intersection(x, y), BagCardinality(x) + BagCardinality(y))

\* SequenceMatcher.match(bigrams, threshold): the windows whose score is
\* above the threshold
DiceWindows(seq, query, thr) ==
    {c \in {Candidate(be[1], be[2],
                      Dice(WindowBigrams(seq, be[1], be[2]), query)) :
                be \in EngineSpans(seq)} :
        AboveThreshold(c.score, thr)}

\* ... each reported at most once, in non-decreasing begin order
DiceNext(seq, query, thr, sofar) ==
    {c \in DiceWindows(seq, query, thr) :
        /\ \A i \in 1..Len(sofar) : sofar[i] # c
        /\ sofar # <<>> => sofar[Len(sofar)].begin <= c.begin}

\* (mutation of make_match: the match ends where its last token begins)
make_match_LastBegin(seq, m) ==
    [begin |-> seq.tokens[m.begin + 1].begin,
     end   |-> seq.tokens[m.end].begin,
     score |-> m.score]

\* Matcher.Text.match: make_match
make_match(seq, m) ==
    [begin |-> seq.tokens[m.begin + 1].begin,
     end   |-> seq.tokens[m.end].end,
     score |-> m.score]

\* (mutation of Overlaps: the begin of the best match is compared)
Overlaps_Begin(m, best) == m.begin <= best.begin

\* (mutation of Overlaps: the begins of the two matches are compared)
Overlaps_BestBegin(m, best) == m.begin < best.begin

\* line 116: match.begin < best_match.end
Overlaps(m, best) == m.begin < best.end

\* (mutation of Worse: an equally good overlap replaces the best one)
Worse_Strict(m, best) == ScoreLT(m.score, best.score)

\* (mutation of Worse: the comparison is the wrong way round)
Worse_Flipped(m, best) == ScoreLE(best.score, m.score)

\* line 119: match.score <= best_match.score
Worse(m, best) == ScoreLE(m.score, best.score)

\* the loop body of Matcher.Text.match for the candidate m: what it yields
MatchYield(seq, best, m) ==
    IF best # None /\ ~Overlaps(m, Value(best))
    THEN <<make_match(seq, Value(best))>>
    ELSE <<>>

\* ... the window it yields (history)
MatchYieldWindow(best, m) ==
    IF best # None /\ ~Overlaps(m, Value(best)) THEN <<Value(best)>> ELSE <<>>

\* ... and best_match after it
MatchBest(best, m) ==
    IF best # None /\ Overlaps(m, Value(best)) /\ Worse(m, Value(best))
    THEN best
    ELSE Some(m)

\* (mutation of MatchFlush: the last best match is not produced)
MatchFlush_Forgotten(seq, best) == <<>>

\* after the loop: `if best_match: yield make_match(best_match)`
MatchFlush(seq, best) ==
    IF best # None THEN <<make_match(seq, Value(best))>> ELSE <<>>
MatchFlushWindow(best) == IF best # None THEN <<Value(best)>> ELSE <<>>

History(si, ti, windows) ==
    [i \in 1..Len(windows) |-> [sent |-> si, term |-> ti, window |-> windows[i]]]

(***************************************************************************)
(* extractor.py: Extractor                                                 *)
(***************************************************************************)
\* Extractor.Dictionary.Record: _matching_threshold is None or a number
Record(mt) == [matching_threshold |-> mt]

\* the values a record's _matching_threshold takes: unset, 0, k / ScoreScale
RecordThresholds == {None} \cup {Some(k) : k \in 0..ScoreScale}

\* The characters of the texts given to extract
ExtractChars == {"a", "b", " "}

\* the dictionaries of the model: two terms, in this iteration order
Dictionaries ==
    {<<[term |-> <<"a", "b", " ", "b">>, record |-> Record(mt)],
       [term |-> <<"b">>, record |-> Record(None)]>> : mt \in RecordThresholds}

\* (mutation of TermAt: the terms are visited in reverse order)
TermAt_Reversed(d, i) == d[Len(d) + 1 - i]

\* `for term, rec_bgrms in terms.items()`: the i-th item; terms is a dict
\* built from dictionary.items(), so it keeps the order of the dictionary
TermAt(d, i) == d[i]

\* (mutation of ResolveThreshold: the default always applies)
ResolveThreshold_Default(record, default) == default

\* threshold = record._matching_threshold or self.default_threshold
\* (`or` takes the right operand when the left one is None or 0)
ResolveThreshold(record, default) ==
    IF record.matching_threshold # None /\ Value(record.matching_threshold) # 0
    THEN Value(record.matching_threshold)
    ELSE default

\* (mutation of ExtractorMatch: the offset is not added)
ExtractorMatch_Relative(item, m, off, sent) ==
    [term |-> item.term, begin |-> m.begin, end |-> m.end, score |-> m.score,
     record |-> item.record, token |-> Slice(sent, m.begin, m.end)]

\* Extractor.Match(term, match.begin + offset, match.end + offset, ...)
ExtractorMatch(item, m, off, sent) ==
    [term |-> item.term, begin |-> m.begin + off, end |-> m.end + off,
     score |-> m.score, record |-> item.record,
     token |-> Slice(sent, m.begin, m.end)]

ExtractorMatches(item, ms, off, sent) ==
    [i \in 1..Len(ms) |-> ExtractorMatch(item, ms[i], off, sent)]

(***************************************************************************)
(* Initial values of the parts an operation does not use                   *)
(***************************************************************************)
IdleTokenise  == tk_offset = 0 /\ tokens_out = <<>>
IdleSentences == punkt_end = 0 /\ begin = 0 /\ sentences_out = <<>>
IdleMatch     == /\ sentence = [tokens |-> <<>>, matcher |-> <<>>]
                 /\ stream = <<>>
                 /\ best_match = None
                 /\ out = <<>>
                 /\ emitted = <<>>
IdleExtract   == /\ default_threshold = ScoreScale
                 /\ dictionary = <<>>
                 /\ sentence_str = <<>>
                 /\ sent_idx = 0
                 /\ term_idx = 0
                 /\ offset = 0
                 /\ matches = <<>>

IdleBigrams   == pattern = <<>> /\ bigrams = EmptyBag
IdleConstruct == /\ language = default_language
                 /\ strict_language = TRUE
                 /\ punkt_models = {default_language}
                 /\ stopword_files = {default_language}
                 /\ matcher = None
                 /\ extractor = None
IdleLowercase == /\ min_len = 0
                 /\ except_caps = FALSE
                 /\ tokens_in = <<>>
                 /\ transformed = <<>>
IdleSerialise == original = None /\ dump = None /\ restored = None
IdleStitch    == /\ text_sentences = <<>>
                 /\ text_offset = 0
                 /\ text_best = None
                 /\ text_out = <<>>

(***************************************************************************)
(* Specification of Tokeniser.tokenise(string)                             *)
(***************************************************************************)
InitTokenise ==
    /\ pc = "tokenise"
    /\ text \in Strings(Chars, MaxStringLen)
    /\ IdleTokenise /\ IdleSentences /\ IdleMatch /\ IdleExtract
    /\ strip_stopwords = TRUE /\ omit_whitespaces = TRUE
    /\ threshold = ScoreScale
    /\ IdleBigrams /\ IdleConstruct /\ IdleLowercase /\ IdleSerialise
    /\ IdleStitch

\* one iteration of `for match in re.finditer(...)`
TokeniseMatch ==
    /\ pc = "tokenise"
    /\ HasMatch(text, tk_offset)
    /\ tokens_out' = tokens_out \o TokeniseMatchTokens(text, tk_offset)
    /\ tk_offset' = MatchEnd(text, MatchBegin(text, tk_offset))
    /\ UNCHANGED <<pc, text, sentencesVars, matcherVars, matchVars, threshold,
                   extractVars,
                   bigramVars, constructVars, lowercaseVars, serialiseVars,
                   stitchVars>>

\* the loop is over: the trailing split token, then the generator returns
TokeniseTrailing ==
    /\ pc = "tokenise"
    /\ ~HasMatch(text, tk_offset)
    /\ tokens_out' = tokens_out \o TokeniseTrailingTokens(text, tk_offset)
    /\ pc' = "done"
    /\ UNCHANGED <<text, tk_offset, sentencesVars, matcherVars, matchVars,
                   threshold, extractVars,
                   bigramVars, constructVars, lowercaseVars, serialiseVars,
                   stitchVars>>

NextTokenise == TokeniseMatch \/ TokeniseTrailing

SpecTokenise == InitTokenise /\ [][NextTokenise]_vars

(***************************************************************************)
(* Specification of Tokeniser.sentences(text)                              *)
(***************************************************************************)
InitSentences ==
    /\ pc = "sentences"
    /\ text \in Strings(TextChars, MaxTextLen)
    /\ IdleTokenise /\ IdleSentences /\ IdleMatch /\ IdleExtract
    /\ strip_stopwords = TRUE /\ omit_whitespaces = TRUE
    /\ threshold = ScoreScale
    /\ IdleBigrams /\ IdleConstruct /\ IdleLowercase /\ IdleSerialise
    /\ IdleStitch

\* one iteration of `for sentence in self._punkt.tokenize(text)`
SentencesNext ==
    /\ pc = "sentences"
    /\ \E se \in PunktSlices(text, punkt_end) :
          LET sent == Slice(text, se[1], se[2]) IN
          /\ punkt_end' = se[2]
          /\ sentences_out' = Append(sentences_out, SentenceYield(text, sent, begin))
          /\ begin' = SentenceEnd(text, sent, begin)
    /\ UNCHANGED <<pc, text, tokeniseVars, matcherVars, matchVars, threshold,
                   extractVars,
                   bigramVars, constructVars, lowercaseVars, serialiseVars,
                   stitchVars>>

\* the collaborator's list is exhausted: the generator returns
SentencesReturn ==
    /\ pc = "sentences"
    /\ pc' = "done"
    /\ UNCHANGED <<text, tokeniseVars, sentencesVars, matcherVars, matchVars,
                   threshold, extractVars,
                   bigramVars, constructVars, lowercaseVars, serialiseVars,
                   stitchVars>>

NextSentences == SentencesNext \/ SentencesReturn

SpecSentences == InitSentences /\ [][NextSentences]_vars

(***************************************************************************)
(* Specification of Matcher(...).sentence(text).match(bigrams, threshold)  *)
(***************************************************************************)
\* The characters of the short sentences that are matched
SentenceChars == {"a", "b", " "}

\* the sentences that are matched: every short one, and longer ones with
\* punctuation and with a stop word between two words
Sentences ==
    Strings(SentenceChars, MaxSentenceLen)
        \cup {<<"b", ",", "b">>, <<",", "a", ",">>,
              <<"b", " ", "a", " ", "b">>, <<"b", ",", "a", " ", "b">>}

InitMatch ==
    /\ pc = "match"
    /\ text \in Sentences
    /\ strip_stopwords \in BOOLEAN
    /\ omit_whitespaces = TRUE
    /\ threshold \in 1..ScoreScale
    /\ sentence = TokenSequence(text, 0)
    /\ stream = <<>> /\ best_match = None /\ out = <<>> /\ emitted = <<>>
    /\ IdleTokenise /\ IdleSentences /\ IdleExtract
    /\ IdleBigrams /\ IdleConstruct /\ IdleLowercase /\ IdleSerialise
    /\ IdleStitch

\* one iteration of `for match in sentence.matcher.match(bigrams, threshold)`
MatchCandidate ==
    /\ pc = "match"
    /\ Len(stream) < MaxCandidates
    /\ \E m \in AnyNext(sentence, threshold, stream) :
          /\ stream' = Append(stream, m)
          /\ out' = out \o MatchYield(sentence, best_match, m)
          /\ emitted' = emitted \o History(1, 0, MatchYieldWindow(best_match, m))
          /\ best_match' = MatchBest(best_match, m)
    /\ UNCHANGED <<pc, text, tokeniseVars, sentencesVars, matcherVars, sentence,
                   threshold, extractVars,
                   bigramVars, constructVars, lowercaseVars, serialiseVars,
                   stitchVars>>

\* the engine has no more candidates: the last best match is produced
MatchExhausted ==
    /\ pc = "match"
    /\ out' = out \o MatchFlush(sentence, best_match)
    /\ emitted' = emitted \o History(1, 0, MatchFlushWindow(best_match))
    /\ pc' = "done"
    /\ UNCHANGED <<text, tokeniseVars, sentencesVars, matcherVars, sentence,
                   stream, best_match, threshold, extractVars,
                   bigramVars, constructVars, lowercaseVars, serialiseVars,
                   stitchVars>>

NextMatch == MatchCandidate \/ MatchExhausted

SpecMatch == InitMatch /\ [][NextMatch]_vars

(***************************************************************************)
(* Specification of Extractor(dictionary, default_threshold,               *)
(* strip_stopwords = ...).extract(text)                                    *)
(***************************************************************************)
Init ==
    /\ pc = "sentence"
    /\ text \in Strings(ExtractChars, MaxExtractLen)
    /\ dictionary \in Dictionaries
    /\ default_threshold \in 1..ScoreScale
    /\ strip_stopwords = TRUE /\ omit_whitespaces = TRUE
    /\ threshold = default_threshold
    /\ sentence_str = <<>> /\ sent_idx = 0 /\ term_idx = 0 /\ offset = 0
    /\ matches = <<>>
    /\ IdleTokenise /\ IdleSentences /\ IdleMatch
    /\ IdleBigrams /\ IdleConstruct /\ IdleLowercase /\ IdleSerialise
    /\ IdleStitch

\* `for sentence_str in matcher.sentences(text)`: the next sentence is pulled
\* and preprocessed
ExtractSentence ==
    /\ pc = "sentence"
    /\ \E se \in PunktSlices(text, punkt_end) :
          LET sent == Slice(text, se[1], se[2]) IN
          /\ punkt_end' = se[2]
          /\ sentences_out' = Append(sentences_out, SentenceYield(text, sent, begin))
          /\ begin' = SentenceEnd(text, sent, begin)
          /\ sentence_str' = SentenceYield(text, sent, begin)
          /\ sentence' = TokenSequence(SentenceYield(text, sent, begin), 0)
    /\ sent_idx' = sent_idx + 1
    /\ term_idx' = 0
    /\ pc' = "term"
    /\ UNCHANGED <<text, tokeniseVars, matcherVars, stream, best_match, out,
                   emitted, threshold, default_threshold, dictionary, offset,
                   matches,
                   bigramVars, constructVars, lowercaseVars, serialiseVars,
                   stitchVars>>

\* there is no further sentence: extract returns
ExtractReturn ==
    /\ pc = "sentence"
    /\ pc' = "done"
    /\ UNCHANGED <<text, tokeniseVars, sentencesVars, matcherVars, matchVars,
                   threshold, extractVars,
                   bigramVars, constructVars, lowercaseVars, serialiseVars,
                   stitchVars>>

\* `for term, rec_bgrms in terms.items()`: the next term, its threshold, and
\* the call of sentence.match(bigrams, threshold)
ExtractTerm ==
    /\ pc = "term"
    /\ term_idx < Len(dictionary)
    /\ term_idx' = term_idx + 1
    /\ threshold' = ResolveThreshold(TermAt(dictionary, term_idx + 1).record,
                                     default_threshold)
    /\ stream' = <<>> /\ best_match' = None /\ out' = <<>>
    /\ pc' = "candidates"
    /\ UNCHANGED <<text, tokeniseVars, sentencesVars, matcherVars, sentence,
                   emitted, default_threshold, dictionary, sentence_str, sent_idx,
                   offset, matches,
                   bigramVars, constructVars, lowercaseVars, serialiseVars,
                   stitchVars>>

\* the terms are exhausted: offset += len(sentence_str)
ExtractSentenceEnd ==
    /\ pc = "term"
    /\ term_idx = Len(dictionary)
    /\ offset' = offset + Len(sentence_str)
    /\ pc' = "sentence"
    /\ UNCHANGED <<text, tokeniseVars, sentencesVars, matcherVars, matchVars,
                   threshold, default_threshold, dictionary, sentence_str, sent_idx,
                   term_idx, matches,
                   bigramVars, constructVars, lowercaseVars, serialiseVars,
                   stitchVars>>

\* the engine produces a candidate: the loop body of Matcher.Text.match, and
\* an Extractor.Match for the match it yields
ExtractCandidate ==
    /\ pc = "candidates"
    /\ \E m \in DiceNext(sentence,
                          sequence_bigrams(TermAt(dictionary, term_idx).term),
                          threshold, stream) :
          /\ stream' = Append(stream, m)
          /\ out' = out \o MatchYield(sentence, best_match, m)
          /\ emitted' = emitted \o
                History(sent_idx, term_idx, MatchYieldWindow(best_match, m))
          /\ matches' = matches \o
                ExtractorMatches(TermAt(dictionary, term_idx),
                                 MatchYield(sentence, best_match, m),
                                 offset, sentence_str)
          /\ best_match' = MatchBest(best_match, m)
    /\ UNCHANGED <<pc, text, tokeniseVars, sentencesVars, matcherVars, sentence,
                   threshold, default_threshold, dictionary, sentence_str, sent_idx,
                   term_idx, offset,
                   bigramVars, constructVars, lowercaseVars, serialiseVars,
                   stitchVars>>

\* the engine has no more candidates: the last best match is produced
ExtractExhausted ==
    /\ pc = "candidates"
    /\ out' = out \o MatchFlush(sentence, best_match)
    /\ emitted' = emitted \o History(sent_idx, term_idx, MatchFlushWindow(best_match))
    /\ matches' = matches \o
          ExtractorMatches(TermAt(dictionary, term_idx),
                           MatchFlush(sentence, best_match), offset, sentence_str)
    /\ pc' = "term"
    /\ UNCHANGED <<text, tokeniseVars, sentencesVars, matcherVars, sentence,
                   stream, best_match, threshold, default_threshold, dictionary,
                   sentence_str, sent_idx, term_idx, offset,
                   bigramVars, constructVars, lowercaseVars, serialiseVars,
                   stitchVars>>

Next ==
    \/ ExtractSentence
    \/ ExtractReturn
    \/ ExtractTerm
    \/ ExtractSentenceEnd
    \/ ExtractCandidate
    \/ ExtractExhausted

Spec == Init /\ [][Next]_vars

(***************************************************************************)
(* C4 - C6: Extractor.extract                                              *)
(***************************************************************************)
\* position of a term in the iteration order of the dictionary
TermPos(term) == CHOOSE k \in 1..Len(dictionary) : dictionary[k].term = term

\* C4: of any two matches yielded by extract the earlier one belongs to an
\* earlier sentence, or to the same sentence and an earlier dictionary term,
\* or to the same sentence and term and has a smaller begin.
C4_EmissionOrder ==
    pc \in {"sentence", "term", "candidates", "done"} =>
        /\ Len(matches) = Len(emitted)
        /\ \A i, j \in 1..Len(matches) :
              i < j =>
                \/ emitted[i].sent < emitted[j].sent
                \/ /\ emitted[i].sent = emitted[j].sent
                   /\ TermPos(matches[i].term) < TermPos(matches[j].term)
                \/ /\ emitted[i].sent = emitted[j].sent
                   /\ matches[i].term = matches[j].term
                   /\ matches[i].begin < matches[j].begin

\* two matches of one (sentence, term) pair, and a match of a later term
\* that lies before a match of an earlier term: not the position order
C4_Witness ==
    /\ pc = "done"
    /\ \E i, j \in 1..Len(matches) :
          /\ i < j
          /\ emitted[i].sent = emitted[j].sent
          /\ matches[i].term = matches[j].term
    /\ \E i, j \in 1..Len(matches) :
          /\ i < j
          /\ TermPos(matches[i].term) < TermPos(matches[j].term)
          /\ matches[j].end <= matches[i].begin

\* C5: every yielded match has 0 <= begin < end <= len(text) and
\* token = text[begin:end]; while a sentence is processed, offset is the
\* position of the sentence in text.
C5_AbsoluteOffsets ==
    /\ \A i \in 1..Len(matches) :
          /\ 0 <= matches[i].begin
          /\ matches[i].begin < matches[i].end
          /\ matches[i].end <= Len(text)
          /\ matches[i].token = Slice(text, matches[i].begin, matches[i].end)
    /\ pc \in {"term", "candidates"} =>
          /\ offset + Len(sentence_str) <= Len(text)
          /\ sentence_str = Slice(text, offset, offset + Len(sentence_str))

\* a match of a second sentence that starts with whitespace
C5_Witness ==
    /\ pc = "done"
    /\ \E i \in 1..Len(matches) :
          /\ emitted[i].sent = 2
          /\ matches[i].begin > offset - Len(sentence_str)
          /\ matches[i].end = Len(text)

\* the threshold the claim gives a record
ClaimedThreshold(record) ==
    IF record.matching_threshold = None THEN default_threshold
    ELSE Value(record.matching_threshold)

\* the records the claim speaks of: no override, or one in (0, 1]
ClaimedRecord(record) ==
    \/ record.matching_threshold = None
    \/ Value(record.matching_threshold) \in 1..ScoreScale

\* C6: the threshold handed to the engine for a term is the override of
\* its record if it has one in (0, 1], the default threshold if it has
\* none; every yielded match has a score above that threshold.
C6_ThresholdResolution ==
    /\ pc = "candidates" =>
          LET record == dictionary[term_idx].record
          IN  ClaimedRecord(record) => threshold = ClaimedThreshold(record)
    /\ \A i \in 1..Len(matches) :
          ClaimedRecord(matches[i].record) =>
              AboveThreshold(matches[i].score, ClaimedThreshold(matches[i].record))

\* a match whose score lies between the override and the default
C6_Witness ==
    \E i \in 1..Len(matches) :
        /\ matches[i].record.matching_threshold # None
        /\ Value(matches[i].record.matching_threshold) \in 1..(default_threshold - 1)
        /\ ~AboveThreshold(matches[i].score, default_threshold)
        /\ ScoreLT(matches[i].score, Score(1, 1))

(***************************************************************************)
(* C7: Tokeniser.sentences covers the text                                 *)
(***************************************************************************)
\* C7 as claimed: when the generator has returned, the concatenation of
\* the yielded sentences equals text.
C7_CoversAsClaimed ==
    pc = "done" => Concat(sentences_out) = text

\* C7 amended: at every moment the concatenation of the yielded sentences
\* equals text[0:begin], begin being the end at which the last sentence
\* was located; the text after it is not yielded.
C7_CoversPrefix ==
    pc \in {"sentences", "done"} =>
        /\ begin <= Len(text)
        /\ Concat(sentences_out) = Slice(text, 0, begin)
        /\ \A i \in 1..Len(sentences_out) : sentences_out[i] # <<>>

\* leading and inter-sentence whitespace is kept, trailing text is not
C7_Witness ==
    /\ pc = "done"
    /\ Len(sentences_out) = 2
    /\ sentences_out[1][1] = " "
    /\ sentences_out[2][1] = " "
    /\ begin < Len(text)

(***************************************************************************)
(* C8: the tokens of tokenise(sentence) partition the sentence             *)
(***************************************************************************)
\* the tokens ts are contiguous from 0, non-empty, and carry their own text
Contiguous(s, ts) ==
    /\ ts # <<>> => ts[1].begin = 0
    /\ \A i \in 1..Len(ts) :
          /\ ts[i].begin < ts[i].end
          /\ ts[i].string = Slice(s, ts[i].begin, ts[i].end)
          /\ i > 1 => ts[i].begin = ts[i - 1].end

\* C8: at every moment the tokens yielded so far are contiguous from 0,
\* each with begin < end and string = sentence[begin:end]; when the generator
\* has returned, the last token ends at len(sentence), and the empty
\* sentence has yielded no token.
C8_TokensPartitionSentence ==
    pc \in {"tokenise", "done"} =>
        /\ Contiguous(text, tokens_out)
        /\ pc = "done" =>
              /\ text = <<>> <=> tokens_out = <<>>
              /\ tokens_out # <<>> => tokens_out[Len(tokens_out)].end = Len(text)

C8_Witness ==
    /\ pc = "done"
    /\ Len(tokens_out) = 4
    /\ tokens_out[1].tag = ws
    /\ tokens_out[3].tag = punct

(***************************************************************************)
(* C9: classification of the tokens                                        *)
(***************************************************************************)
\* the apostrophe variants: U+0027 and U+2019
Apostrophes == {"'", "u2019"}

\* the split set as the claim words it: punctuation other than apostrophes,
\* plus whitespace
ClaimPunctuation == (UnicodeP \cup AsciiPunctuation) \ Apostrophes
ClaimSplitSet == ClaimPunctuation \cup whitespaces

\* the classification of the tokens ts with respect to a split set
Classified(ts, punctSet, splitSet) ==
    /\ \A i \in 1..Len(ts) :
          LET str == ts[i].string IN
          /\ ts[i].tag \in {word, ws, punct}
          /\ ts[i].tag = word => \A k \in 1..Len(str) : str[k] \notin splitSet
          /\ ts[i].tag # word => \A k \in 1..Len(str) : str[k] \in splitSet
          /\ ts[i].tag = punct <=>
                (ts[i].tag # word /\ \E k \in 1..Len(str) : str[k] \in punctSet)
    /\ \A i \in 1..(Len(ts) - 1) : (ts[i].tag = word) # (ts[i + 1].tag = word)

\* C9 as claimed: with the split set "punctuation other than apostrophes plus
\* whitespace", every WORD token is a run of characters outside the split
\* set, every other token a run of split-set characters tagged PUNCTUATION
\* iff it holds a punctuation character, and WORD and non-WORD tokens
\* alternate (so each run is maximal and no apostrophe splits a word).
C9_ClassificationAsClaimed ==
    pc = "done" => Classified(tokens_out, ClaimPunctuation, ClaimSplitSet)

\* what the code does: the same classification with its own split set, in
\* which U+2019 is a punctuation character
C9_ClassificationOfCode ==
    pc = "done" => Classified(tokens_out, punctuation, split_chars)

\* a word with the apostrophe U+2019 inside is split at the apostrophe
C9_Witness ==
    /\ pc = "done"
    /\ text = <<"a", "u2019", "b">>
    /\ Len(tokens_out) = 3
    /\ tokens_out[2] = Token(<<"u2019">>, 1, 2, punct)

(***************************************************************************)
(* C1 - C3: the overlap resolver of Matcher.Text.match                     *)
(***************************************************************************)
Windows == [i \in 1..Len(emitted) |-> emitted[i].window]

IsEmitted(c) == \E k \in 1..Len(emitted) : emitted[k].window = c

\* C1: of any two matches yielded for one (sentence, term) pair the earlier
\* one ends at or before the begin of the later one, in token indices and
\* in character offsets.
C1_NoOverlap ==
    pc \in {"match", "done"} =>
        /\ Len(out) = Len(emitted)
        /\ \A i, j \in 1..Len(out) :
              i < j => /\ Windows[i].end <= Windows[j].begin
                       /\ out[i].end <= out[j].begin

C1_Witness ==
    /\ pc = "done"
    /\ Len(out) = 2
    /\ Len(stream) > 2
    /\ out[1].end < out[2].begin

\* a and b with a.begin < b.begin < a.end
OverlapPairs ==
    {ab \in (1..Len(stream)) \X (1..Len(stream)) :
        /\ stream[ab[1]].begin < stream[ab[2]].begin
        /\ stream[ab[2]].begin < stream[ab[1]].end}

\* C2 as claimed: of two candidates a, b with a.begin < b.begin < a.end at
\* most one is yielded, and if one is, it is the one with the strictly
\* higher score, a when the scores are equal.
C2_PairwiseAsClaimed ==
    pc = "done" =>
        \A ab \in OverlapPairs :
            LET a == stream[ab[1]]
                b == stream[ab[2]]
            IN  /\ ~(IsEmitted(a) /\ IsEmitted(b))
                /\ (IsEmitted(a) \/ IsEmitted(b)) =>
                      IF ScoreLT(a.score, b.score) THEN IsEmitted(b) ELSE IsEmitted(a)

\* C2 amended: of two candidates a, b with a.begin < b.begin < a.end at most
\* one is yielded, and if the earlier one (a) is yielded, the score of b is
\* not strictly higher than that of a.
C2_Pairwise ==
    pc = "done" =>
        \A ab \in OverlapPairs :
            LET a == stream[ab[1]]
                b == stream[ab[2]]
            IN  /\ ~(IsEmitted(a) /\ IsEmitted(b))
                /\ IsEmitted(a) => ScoreLE(b.score, a.score)

\* a is yielded and b, which overlaps it with the same score, is not, while
\* another b is yielded although the a that overlaps it has a higher score
C2_Witness ==
    /\ pc = "done"
    /\ \E ab \in OverlapPairs :
          /\ IsEmitted(stream[ab[1]])
          /\ ~IsEmitted(stream[ab[2]])
          /\ ScoreEQ(stream[ab[2]].score, stream[ab[1]].score)
    /\ \E ab \in OverlapPairs :
          /\ IsEmitted(stream[ab[2]])
          /\ ~IsEmitted(stream[ab[1]])
          /\ ScoreLT(stream[ab[2]].score, stream[ab[1]].score)

\* Overlap clusters of the stream (ordered by begin): candidate i starts a
\* cluster iff it overlaps no earlier candidate
ClusterStart(i) == \A k \in 1..(i - 1) : stream[k].end <= stream[i].begin

\* the first candidate of the cluster of candidate i
ClusterOf ==
    [i \in 1..Len(stream) |->
        CHOOSE f \in 1..i :
            ClusterStart(f) /\ \A g \in (f + 1)..i : ~ClusterStart(g)]

Clusters == {i \in 1..Len(stream) : ClusterStart(i)}

\* the highest score among members, the earliest one among equal scores
Top(members) ==
    CHOOSE t \in members :
        \A i \in members :
            \/ ScoreLT(stream[i].score, stream[t].score)
            \/ ScoreEQ(stream[i].score, stream[t].score) /\ t <= i

\* the yielded windows that are among members
EmittedOf(members) ==
    {k \in 1..Len(emitted) : \E i \in members : stream[i] = emitted[k].window}

\* C3 as claimed: exactly one candidate of every overlap cluster is yielded,
\* the one with the highest score, the earliest among equal top scores.
C3_ClusterAsClaimed ==
    pc = "done" =>
        LET cluster == ClusterOf IN
        \A f \in Clusters :
            LET members == {i \in 1..Len(stream) : cluster[i] = f}
                yielded == EmittedOf(members)
            IN  /\ Cardinality(yielded) = 1
                /\ \A k \in yielded : emitted[k].window = stream[Top(members)]

\* C3 amended: at least one candidate of every overlap cluster is yielded,
\* and the candidate with the highest score of the cluster, the earliest
\* among equal top scores, is one of those yielded.
C3_Cluster ==
    pc = "done" =>
        LET cluster == ClusterOf IN
        \A f \in Clusters :
            LET members == {i \in 1..Len(stream) : cluster[i] = f}
                yielded == EmittedOf(members)
            IN  /\ Cardinality(yielded) >= 1
                /\ \E k \in yielded : emitted[k].window = stream[Top(members)]

\* a cluster of three of which two are yielded
C3_Witness ==
    /\ pc = "done"
    /\ Clusters = {1}
    /\ Len(stream) = 3
    /\ Len(emitted) = 2

(***************************************************************************)
(* C10: no match starts or ends on a strippable token                      *)
(***************************************************************************)
TokenAtBegin(seq, b) == CHOOSE i \in 1..Len(seq.tokens) : seq.tokens[i].begin = b
TokenAtEnd(seq, e)   == CHOOSE i \in 1..Len(seq.tokens) : seq.tokens[i].end = e

\* C10: the token at the begin and the token at the end of every yielded
\* match are WORD tokens whose text is not in the active stop-word set.
C10_NoStripBoundary ==
    pc \in {"match", "done"} =>
        \A k \in 1..Len(out) :
            LET first == sentence.tokens[TokenAtBegin(sentence, out[k].begin)]
                last  == sentence.tokens[TokenAtEnd(sentence, out[k].end)]
            IN  /\ first.tag = word /\ first.string \notin stopwords
                /\ last.tag = word /\ last.string \notin stopwords

\* a yielded match with a stop word strictly inside
C10_Witness ==
    /\ pc = "done"
    /\ strip_stopwords
    /\ \E k \in 1..Len(out) : \E i \in 1..Len(sentence.tokens) :
          /\ out[k].begin < sentence.tokens[i].begin
          /\ sentence.tokens[i].end < out[k].end
          /\ sentence.tokens[i].string \in stopwords

(***************************************************************************)
(* Specification of Matcher(...).sequence_bigrams(string) and of the       *)
(* token bigrams Matcher.Text.__init__ hands to the engine, for a pattern  *)
(* and for the pattern with strippable tokens put before and after it      *)
(***************************************************************************)
MaxPatternLen == 3      \* longest pattern given to sequence_bigrams
MaxAffixes == 2         \* most strings put before or after the pattern

\* The characters of the patterns
PatternChars == {"a", "b", " ", ","}

\* the strings put before or after a pattern
Affixes == {<<" ">>, <<",">>, <<"a">>, <<"a", " ">>, <<" ", "a">>}

\* every token of the string is strippable
AllStrip(str) ==
    LET ts == tokenise(str) IN \A i \in 1..Len(ts) : is_strip_token(ts[i])

\* x \o y does not join a word of x and a word of y into one word
NoWordJoined(left, right) ==
    ~(/\ Len(left) > 0
      /\ Len(right) > 0
      /\ IsWordChar(left[Len(left)])
      /\ IsWordChar(right[1]))

InitBigrams ==
    /\ pc = "bigrams"
    /\ pattern \in Strings(PatternChars, MaxPatternLen)
    /\ text = pattern
    /\ strip_stopwords \in BOOLEAN
    /\ omit_whitespaces \in BOOLEAN
    /\ threshold = ScoreScale
    /\ sentence = TokenSequence(pattern, 0)
    /\ bigrams = sequence_bigrams(pattern)
    /\ stream = <<>> /\ best_match = None /\ out = <<>> /\ emitted = <<>>
    /\ IdleTokenise /\ IdleSentences /\ IdleExtract
    /\ IdleConstruct /\ IdleLowercase /\ IdleSerialise
    /\ IdleStitch

\* sequence_bigrams and sentence of the string with strippable tokens before it
SequencePrepend ==
    /\ pc = "bigrams"
    /\ Len(text) < Len(pattern) + MaxAffixes
    /\ \E x \in Affixes :
          /\ AllStrip(x)
          /\ NoWordJoined(x, text)
          /\ text' = x \o text
          /\ sentence' = TokenSequence(x \o text, 0)
          /\ bigrams' = sequence_bigrams(x \o text)
    /\ UNCHANGED <<pc, tokeniseVars, sentencesVars, matcherVars, stream, best_match,
                   out, emitted, threshold, extractVars, pattern, constructVars,
                   lowercaseVars, serialiseVars,
                   stitchVars>>

\* sequence_bigrams and sentence of the string with strippable tokens after it
SequenceAppend ==
    /\ pc = "bigrams"
    /\ Len(text) < Len(pattern) + MaxAffixes
    /\ \E x \in Affixes :
          /\ AllStrip(x)
          /\ NoWordJoined(text, x)
          /\ text' = text \o x
          /\ sentence' = TokenSequence(text \o x, 0)
          /\ bigrams' = sequence_bigrams(text \o x)
    /\ UNCHANGED <<pc, tokeniseVars, sentencesVars, matcherVars, stream, best_match,
                   out, emitted, threshold, extractVars, pattern, constructVars,
                   lowercaseVars, serialiseVars,
                   stitchVars>>

NextBigrams == SequencePrepend \/ SequenceAppend

SpecBigrams == InitBigrams /\ [][NextBigrams]_vars

(***************************************************************************)
(* C11: sequence_bigrams strips leading and trailing strippable tokens     *)
(***************************************************************************)
BagEq(x, y) ==
    \A p \in BagToSet(x) \cup BagToSet(y) : CopiesIn(p, x) = CopiesIn(p, y)

\* the tokens from the first to the last token that is not strippable
Kept(ts) ==
    LET keep == {i \in 1..Len(ts) : ~is_strip_token(ts[i])}
    IN  IF keep = {} THEN <<>>
        ELSE SubSeq(ts, CHOOSE i \in keep : \A j \in keep : i <= j,
                        CHOOSE i \in keep : \A j \in keep : j <= i)

\* number of copies of the bigram p in the token bigrams of the tokens ts
RECURSIVE CopiesInTokens(_, _)
CopiesInTokens(p, ts) ==
    IF ts = <<>> THEN 0
    ELSE CopiesIn(p, token_bigrams(ts[1])) + CopiesInTokens(p, Tail(ts))

\* b is the sum of the token bigrams of the kept tokens of str
IsKeptSum(b, str) ==
    LET ts == Kept(tokenise(str))
        ps == BagToSet(b) \cup UNION {BagToSet(token_bigrams(ts[i])) : i \in 1..Len(ts)}
    IN  \A p \in ps : CopiesIn(p, b) = CopiesInTokens(p, ts)

\* C11: the result of sequence_bigrams is the sum of the token bigrams of the
\* tokens from the first to the last non-strippable token (interior strippable
\* tokens included); it is the same for the pattern and for the pattern with
\* any strippable tokens before and after it, and it is empty for a string of
\* strippable tokens only.
C11_SequenceBigramsStrip ==
    pc = "bigrams" =>
        /\ IsKeptSum(bigrams, text)
        /\ IsKeptSum(bigrams, pattern)
        /\ AllStrip(text) => bigrams = EmptyBag

\* a stop word and whitespace before, punctuation after a pattern with a
\* whitespace token inside that contributes a bigram
C11_Witness ==
    /\ pc = "bigrams"
    /\ pattern = <<"b", " ", "b">>
    /\ text = <<"a", " ", "b", " ", "b", ",">>
    /\ strip_stopwords /\ ~omit_whitespaces
    /\ BagCardinality(bigrams) = 3

(***************************************************************************)
(* C12: bigrams of single-character tokens                                 *)
(***************************************************************************)
\* the tokens of one character that were appended to the engine
SingleCharTokens ==
    {i \in 1..Len(sentence.tokens) : Len(sentence.tokens[i].string) = 1}

Languages == {"english", "czech", "martian"}

\* Tokeniser.available(): the languages with a punkt model
TokeniserAvailable == punkt_models

\* Stopwords.available(): the languages with a stop-word file
StopwordsAvailable == stopword_files

\* (mutation of TokeniserLanguage: the fallback is never taken)
TokeniserLanguage_NoFallback(lang, strict) == lang

\* Matcher.__init__: the language handed to Tokeniser(...)
TokeniserLanguage(lang, strict) ==
    IF strict \/ lang \in TokeniserAvailable THEN lang ELSE default_language

\* Tokeniser.__init__: nltk_load raises LookupError for a missing model
TokeniserLoads(lang) == lang \in punkt_models

\* Matcher.__init__: self._stopwords is Stopwords(language)
UsesStopwordFile(lang, strict, strip) ==
    strip /\ (strict \/ lang \in StopwordsAvailable)

\* Stopwords.__init__: open raises FileNotFoundError for a missing file
StopwordsLoad(lang) == lang \in stopword_files

\* Matcher(language, strict_language, strip_stopwords): the Matcher, or the
\* error its construction raises
MatcherInit(lang, strict, strip) ==
    IF ~TokeniserLoads(TokeniserLanguage(lang, strict))
    THEN [status |-> "LookupError"]
    ELSE IF UsesStopwordFile(lang, strict, strip) /\ ~StopwordsLoad(lang)
    THEN [status |-> "FileNotFoundError"]
    ELSE [status    |-> "ok",
          tokeniser |-> TokeniserLanguage(lang, strict),
          stopwords |-> IF UsesStopwordFile(lang, strict, strip)
                        THEN "Stopwords" ELSE "NoStopwords"]

\* Extractor.__init__: default_threshold, dictionary and the Matcher
\* arguments are stored
ExtractorInit(lang, strict, strip) ==
    [matcher_kwargs |-> [language |-> lang, strict_language |-> strict,
                         strip_stopwords |-> strip]]

\* Tokeniser.assert_punkt_models has downloaded the punkt models, the one of
\* the default language among them; any other model and any stop-word file
\* may be missing
InitConstruct ==
    /\ pc = "construct"
    /\ language \in Languages
    /\ strict_language \in BOOLEAN
    /\ strip_stopwords \in BOOLEAN
    /\ omit_whitespaces = TRUE
    /\ punkt_models \in {m \in SUBSET Languages : default_language \in m}
    /\ stopword_files \in SUBSET Languages
    /\ matcher = None
    /\ extractor = None
    /\ text = <<>>
    /\ threshold = ScoreScale
    /\ IdleTokenise /\ IdleSentences /\ IdleMatch /\ IdleExtract
    /\ IdleBigrams /\ IdleLowercase /\ IdleSerialise
    /\ IdleStitch

\* Matcher(language, strict_language = ..., strip_stopwords = ...)
ConstructMatcher ==
    /\ pc = "construct"
    /\ matcher' = Some(MatcherInit(language, strict_language, strip_stopwords))
    /\ pc' = "matcher"
    /\ UNCHANGED <<text, tokeniseVars, sentencesVars, matcherVars, matchVars,
                   threshold, extractVars, bigramVars, language, strict_language,
                   punkt_models, stopword_files, extractor, lowercaseVars,
                   serialiseVars,
                   stitchVars>>

\* Extractor(dictionary, language = ..., strict_language = ..., ...)
ConstructExtractor ==
    /\ pc = "construct"
    /\ extractor' = Some(ExtractorInit(language, strict_language, strip_stopwords))
    /\ pc' = "extractor"
    /\ UNCHANGED <<text, tokeniseVars, sentencesVars, matcherVars, matchVars,
                   threshold, extractVars, bigramVars, language, strict_language,
                   punkt_models, stopword_files, matcher, lowercaseVars,
                   serialiseVars,
                   stitchVars>>

\* extractor.extract(text): the generator is created, none of its code runs
ExtractCall ==
    /\ pc = "extractor"
    /\ pc' = "generator"
    /\ UNCHANGED <<text, tokeniseVars, sentencesVars, matcherVars, matchVars,
                   threshold, extractVars, bigramVars, constructVars,
                   lowercaseVars, serialiseVars,
                   stitchVars>>

\* the first match is pulled: `matcher = Matcher(**self._matcher_kwargs)`
ExtractFirstPull ==
    /\ pc = "generator"
    /\ LET kwargs == Value(extractor).matcher_kwargs
           made   == MatcherInit(kwargs.language, kwargs.strict_language,
                                 kwargs.strip_stopwords)
       IN  /\ matcher' = Some(made)
           /\ pc' = IF made.status = "ok" THEN "extracting" ELSE "raised"
    /\ UNCHANGED <<text, tokeniseVars, sentencesVars, matcherVars, matchVars,
                   threshold, extractVars, bigramVars, language, strict_language,
                   punkt_models, stopword_files, extractor, lowercaseVars,
                   serialiseVars,
                   stitchVars>>

NextConstruct ==
    \/ ConstructMatcher
    \/ ConstructExtractor
    \/ ExtractCall
    \/ ExtractFirstPull

SpecConstruct == InitConstruct /\ [][NextConstruct]_vars

(***************************************************************************)
(* C13: language policy of Matcher construction                            *)
(***************************************************************************)
\* C13: with strict_language a Matcher for a language without a punkt model
\* is not produced, LookupError is raised; without strict_language the
\* construction succeeds for every language name, the tokeniser being that
\* of the language if it has a model and that of "english" otherwise.
C13_LanguagePolicy ==
    pc = "matcher" =>
        /\ (strict_language /\ language \notin punkt_models) =>
              Value(matcher).status = "LookupError"
        /\ ~strict_language =>
              /\ Value(matcher).status = "ok"
              /\ Value(matcher).tokeniser =
                    IF language \in punkt_models THEN language ELSE "english"

\* the lenient construction for a language without a model
C13_Witness ==
    /\ pc = "matcher"
    /\ ~strict_language
    /\ language = "martian"
    /\ language \notin punkt_models
    /\ Value(matcher).status = "ok"
    /\ Value(matcher).tokeniser = "english"

(***************************************************************************)
(* C14: configuration errors and the construction of an Extractor          *)
(***************************************************************************)
\* the configuration is one the strict policy does not support
Unsupported ==
    strict_language /\ language \notin punkt_models

\* C14 as claimed: an Extractor is never constructed with an unsupported
\* language under the strict policy, and once an Extractor is constructed
\* nothing fails while its matches are pulled.
C14_FailFastAsClaimed ==
    /\ extractor # None => ~Unsupported
    /\ pc # "raised"

\* what the code does: the construction of an Extractor always succeeds,
\* the Matcher is constructed when the first match is pulled, and the
\* unsupported language raises LookupError there.
C14_FailsAtFirstPull ==
    /\ pc \in {"extractor", "generator"} => extractor # None /\ matcher = None
    /\ (pc \in {"raised", "extracting"} /\ Unsupported) =>
          pc = "raised" /\ Value(matcher).status = "LookupError"

\* the Extractor was constructed, extract was called, and the first pull
\* raised LookupError
C14_Witness ==
    /\ pc = "raised"
    /\ extractor # None
    /\ Unsupported
    /\ Value(matcher).status = "LookupError"

(***************************************************************************)
(* Specification of Lowercase(min_len, except_caps).transform(sequence,    *)
(* tokens)                                                                 *)
(***************************************************************************)
MaxWordLen == 2         \* longest token text given to transform
MaxTokens == 2          \* most tokens given to transform
MaxMinLen == 3          \* largest min_len

\* The characters of the token texts: an upper-case and a lower-case letter
CaseChars == {"A", "a"}

\* str.lower() and str.upper(), character by character
LowerChar(ch) == IF ch = "A" THEN "a" ELSE ch
UpperChar(ch) == IF ch = "a" THEN "A" ELSE ch
lower(str) == [i \in 1..Len(str) |-> LowerChar(str[i])]
upper(str) == [i \in 1..Len(str) |-> UpperChar(str[i])]

\* the tokens given to transform
CaseTokens ==
    {Token(str, 0, Len(str), tag) :
        str \in Strings(CaseChars, MaxWordLen) \ {<<>>}, tag \in {word, ws}}

RECURSIVE TokenLists(_)
TokenLists(n) ==
    IF n = 0 THEN {<<>>}
    ELSE TokenLists(n - 1) \cup
         {Append(ts, t) : ts \in TokenLists(n - 1), t \in CaseTokens}

\* (mutation of LowercaseToken: a short word is kept only if it is all
\* upper-case and except_caps is set)
LowercaseToken_KeepCapsOnly(token) ==
    IF token.tag # word THEN token
    ELSE IF /\ Len(token.string) < min_len
            /\ except_caps
            /\ upper(token.string) = token.string
         THEN token
         ELSE [token EXCEPT !.string = lower(token.string)]

\* (mutation of LowercaseToken: the tag is not looked at)
LowercaseToken_AnyTag(token) ==
    IF /\ Len(token.string) < min_len
       /\ (~except_caps \/ upper(token.string) = token.string)
    THEN token
    ELSE [token EXCEPT !.string = lower(token.string)]

\* Lowercase.transform: the body of the loop for one token
LowercaseToken(token) ==
    IF token.tag # word THEN token
    ELSE IF /\ Len(token.string) < min_len
            /\ (~except_caps \/ upper(token.string) = token.string)
         THEN token
         ELSE [token EXCEPT !.string = lower(token.string)]

InitLowercase ==
    /\ pc = "transform"
    /\ min_len \in 0..MaxMinLen
    /\ except_caps \in BOOLEAN
    /\ tokens_in \in TokenLists(MaxTokens)
    /\ transformed = <<>>
    /\ text = <<>>
    /\ strip_stopwords = TRUE /\ omit_whitespaces = TRUE
    /\ threshold = ScoreScale
    /\ IdleTokenise /\ IdleSentences /\ IdleMatch /\ IdleExtract
    /\ IdleBigrams /\ IdleConstruct /\ IdleSerialise
    /\ IdleStitch

\* one iteration of `for token in tokens`
TransformNext ==
    /\ pc = "transform"
    /\ Len(transformed) < Len(tokens_in)
    /\ transformed' =
          Append(transformed, LowercaseToken(tokens_in[Len(transformed) + 1]))
    /\ UNCHANGED <<pc, text, tokeniseVars, sentencesVars, matcherVars, matchVars,
                   threshold, extractVars, bigramVars, constructVars, min_len,
                   except_caps, tokens_in, serialiseVars,
                   stitchVars>>

\* the tokens are exhausted: the generator returns
TransformReturn ==
    /\ pc = "transform"
    /\ Len(transformed) = Len(tokens_in)
    /\ pc' = "done"
    /\ UNCHANGED <<text, tokeniseVars, sentencesVars, matcherVars, matchVars,
                   threshold, extractVars, bigramVars, constructVars,
                   lowercaseVars, serialiseVars,
                   stitchVars>>

NextLowercase == TransformNext \/ TransformReturn

SpecLowercase == InitLowercase /\ [][NextLowercase]_vars

(***************************************************************************)
(* C15, C16: the case-lowering transform                                   *)
(***************************************************************************)
Short(str) == Len(str) < min_len
AllCaps(str) == upper(str) = str

\* C15 as claimed: the text of every WORD token is lowercased, except for the
\* tokens whose text is shorter than min_len and all upper-case while
\* except_caps is set.
C15_LowercaseAsSpecified ==
    pc \in {"transform", "done"} =>
        \A i \in 1..Len(transformed) :
            LET str == tokens_in[i].string IN
            tokens_in[i].tag = word =>
                transformed[i].string =
                    IF Short(str) /\ AllCaps(str) /\ except_caps THEN str
                    ELSE lower(str)

\* C15 amended: the text of every WORD token is lowercased, except for the
\* tokens whose text is shorter than min_len and, in addition, except_caps is
\* not set or the text is all upper-case.
C15_LowercaseUnlessShort ==
    pc \in {"transform", "done"} =>
        \A i \in 1..Len(transformed) :
            LET str == tokens_in[i].string IN
            tokens_in[i].tag = word =>
                transformed[i].string =
                    IF Short(str) /\ (~except_caps \/ AllCaps(str)) THEN str
                    ELSE lower(str)

\* a short word with a lower-case letter is kept because except_caps is not set
C15_Witness ==
    /\ pc = "done"
    /\ ~except_caps
    /\ min_len = 3
    /\ tokens_in = <<Token(<<"A", "a">>, 0, 2, word)>>
    /\ transformed = tokens_in

\* C16: a word of at least min_len characters is lowercased; a shorter word
\* is left unchanged when except_caps is not set; when it is set, a shorter
\* word is left unchanged if it is all upper-case and lowercased otherwise; a
\* token whose tag is not word is never changed; number, order, spans and
\* tags of the tokens are preserved.
C16_LowercaseAsTested ==
    /\ Len(transformed) <= Len(tokens_in)
    /\ pc = "done" => Len(transformed) = Len(tokens_in)
    /\ \A i \in 1..Len(transformed) :
          LET given == tokens_in[i]
              got   == transformed[i]
          IN  /\ got.begin = given.begin /\ got.end = given.end
              /\ got.tag = given.tag
              /\ given.tag # word => got.string = given.string
              /\ (given.tag = word /\ ~Short(given.string)) =>
                    got.string = lower(given.string)
              /\ (given.tag = word /\ Short(given.string) /\ ~except_caps) =>
                    got.string = given.string
              /\ (given.tag = word /\ Short(given.string) /\ except_caps) =>
                    got.string = IF AllCaps(given.string) THEN given.string
                                 ELSE lower(given.string)

\* with except_caps a short all upper-case word is kept and a short word
\* with a lower-case letter is lowercased
C16_Witness ==
    /\ pc = "done"
    /\ except_caps
    /\ min_len = 3
    /\ tokens_in = <<Token(<<"A", "A">>, 0, 2, word), Token(<<"A", "a">>, 0, 2, word)>>
    /\ transformed[1].string = <<"A", "A">>
    /\ transformed[2].string = <<"a", "a">>

(***************************************************************************)
(* Specification of Extractor.serialise and Extractor.deserialise          *)
(***************************************************************************)
\* The classes of the serialised objects.  Record is
\* Extractor.Dictionary.Record; Person and Note are dataclasses derived from
\* it, Person with an optional member that defaults to None, Note with an
\* optional member that defaults to a string; Lowercase is the transform
\* (not a dataclass).
RecordClasses == {"Record", "Person", "Note"}
is_dataclass(class) == class \in RecordClasses

\* the parameters of the constructor of a class
Members(class) ==
    IF class = "Record" THEN {"_matching_threshold"}
    ELSE IF class = "Person" THEN {"_matching_threshold", "age"}
    ELSE IF class = "Note" THEN {"_matching_threshold", "note"}
    ELSE {"min_len", "except_caps"}

NoteDefault == Some("n/a")

\* the default value of a parameter of the constructor of a class
Default(class, member) ==
    IF member = "note" THEN NoteDefault
    ELSE IF member = "min_len" THEN Some(0)
    ELSE IF member = "except_caps" THEN Some(FALSE)
    ELSE None

\* class(**kwargs)
Construct(class, kwargs) ==
    [class   |-> class,
     members |-> [m \in Members(class) |->
                    IF m \in DOMAIN kwargs THEN kwargs[m]
                    ELSE Default(class, m)]]

\* the records a dictionary may hold
ThresholdValues == {None, Some(ScoreScale)}
Records ==
    {Construct("Record", [m \in {"_matching_threshold"} |-> th]) :
        th \in ThresholdValues}
    \cup {Construct("Person", [_matching_threshold |-> th, age |-> v]) :
            th \in ThresholdValues, v \in {None, Some("30"), Some("40")}}
    \cup {Construct("Note", [_matching_threshold |-> th, note |-> v]) :
            th \in ThresholdValues, v \in {None, Some("n/a"), Some("vip")}}

\* the token_transform argument of the matcher
TransformLists ==
    {<<>>,
     <<Construct("Lowercase", [m \in {} |-> None])>>,
     <<Construct("Lowercase", [min_len |-> Some(MaxMinLen),
                               except_caps |-> Some(TRUE)])>>}

SerialTerms == {"alpha", "beta"}

SerialDictionaries ==
    UNION {[terms -> Records] : terms \in SUBSET SerialTerms}

\* f"{obj.__module__}::{obj.__class__.__name__}"
ClassTag(class) ==
    <<IF class = "Lowercase" THEN "approxism.transforms.lowercase"
      ELSE IF class = "Record" THEN "approxism.extractor"
      ELSE "records",
      class>>

\* Extractor._JSONEncoder.default
JSONEncoderDefault(obj) ==
    [_class  |-> ClassTag(obj.class),
     members |->
        IF ~is_dataclass(obj.class) THEN obj.members
        ELSE [m \in {n \in DOMAIN obj.members : obj.members[n] # None} |->
                obj.members[m]]]

\* reconstruct() of Extractor.deserialise, for a dict that has a "_class" key
reconstruct(json) == Construct(json._class[2], json.members)

\* the document written by Extractor.serialise
SerialiseDocument(e) ==
    [default_threshold |-> e.default_threshold,
     matcher_arguments |->
        [strip_stopwords |-> e.matcher_kwargs.strip_stopwords,
         token_transform |->
            [i \in 1..Len(e.matcher_kwargs.token_transform) |->
                JSONEncoderDefault(e.matcher_kwargs.token_transform[i])]],
     dictionary |->
        [term \in DOMAIN e.dictionary |-> JSONEncoderDefault(e.dictionary[term])]]

\* the extractor built by Extractor.deserialise
DeserialiseDocument(config) ==
    [default_threshold |-> config.default_threshold,
     matcher_kwargs |->
        [strip_stopwords |-> config.matcher_arguments.strip_stopwords,
         token_transform |->
            [i \in 1..Len(config.matcher_arguments.token_transform) |->
                reconstruct(config.matcher_arguments.token_transform[i])]],
     dictionary |->
        [term \in DOMAIN config.dictionary |-> reconstruct(config.dictionary[term])]]

InitSerialise ==
    /\ pc = "serialise"
    /\ \E dt \in {1, ScoreScale}, strip \in BOOLEAN,
          tt \in TransformLists, dict \in SerialDictionaries :
          original = Some([default_threshold |-> dt,
                           matcher_kwargs |-> [strip_stopwords |-> strip,
                                               token_transform |-> tt],
                           dictionary |-> dict])
    /\ dump = None
    /\ restored = None
    /\ text = <<>>
    /\ strip_stopwords = TRUE /\ omit_whitespaces = TRUE
    /\ threshold = ScoreScale
    /\ IdleTokenise /\ IdleSentences /\ IdleMatch /\ IdleExtract
    /\ IdleBigrams /\ IdleConstruct /\ IdleLowercase
    /\ IdleStitch

\* Extractor.serialise(dump)
Serialise ==
    /\ pc = "serialise"
    /\ dump' = Some(SerialiseDocument(Value(original)))
    /\ pc' = "dumped"
    /\ UNCHANGED <<text, tokeniseVars, sentencesVars, matcherVars, matchVars,
                   threshold, extractVars, bigramVars, constructVars,
                   lowercaseVars, original, restored,
                   stitchVars>>

\* Extractor.deserialise(dump)
Deserialise ==
    /\ pc = "dumped"
    /\ restored' = Some(DeserialiseDocument(Value(dump)))
    /\ pc' = "restored"
    /\ UNCHANGED <<text, tokeniseVars, sentencesVars, matcherVars, matchVars,
                   threshold, extractVars, bigramVars, constructVars,
                   lowercaseVars, original, dump,
                   stitchVars>>

NextSerialise == Serialise \/ Deserialise

SpecSerialise == InitSerialise /\ [][NextSerialise]_vars

(***************************************************************************)
(* C17: the serialisation round trip                                       *)
(***************************************************************************)
\* C17 as claimed: the deserialised extractor has the default threshold,
\* the matcher construction options and the dictionary of the serialised
\* one, every record having the same type and the same value for every
\* field, the fields whose value is None included.
C17_RoundTripAsClaimed ==
    pc = "restored" =>
        /\ Value(restored).default_threshold = Value(original).default_threshold
        /\ Value(restored).matcher_kwargs = Value(original).matcher_kwargs
        /\ DOMAIN Value(restored).dictionary = DOMAIN Value(original).dictionary
        /\ \A term \in DOMAIN Value(original).dictionary :
              LET was == Value(original).dictionary[term]
                  now == Value(restored).dictionary[term]
              IN  /\ now.class = was.class
                  /\ \A m \in Members(was.class) :
                        now.members[m] = was.members[m]

\* C17, what the code does: the default threshold, the matcher options, the
\* terms and the types of the records are reproduced; a field of a record
\* whose value is None comes back with the default of the constructor,
\* every other field with its value.
C17_RoundTripOfCode ==
    pc = "restored" =>
        /\ Value(restored).default_threshold = Value(original).default_threshold
        /\ Value(restored).matcher_kwargs = Value(original).matcher_kwargs
        /\ DOMAIN Value(restored).dictionary = DOMAIN Value(original).dictionary
        /\ \A term \in DOMAIN Value(original).dictionary :
              LET was == Value(original).dictionary[term]
                  now == Value(restored).dictionary[term]
              IN  /\ now.class = was.class
                  /\ \A m \in Members(was.class) :
                        now.members[m] =
                            IF was.members[m] = None THEN Default(was.class, m)
                            ELSE was.members[m]

\* a Note whose note is None comes back with the note "n/a"
C17_Witness ==
    /\ pc = "restored"
    /\ "alpha" \in DOMAIN Value(original).dictionary
    /\ Value(original).dictionary["alpha"].class = "Note"
    /\ Value(original).dictionary["alpha"].members["note"] = None
    /\ Value(restored).dictionary["alpha"].members["note"] = NoteDefault

(***************************************************************************)
(* Specification of Matcher(strip_stopwords, omit_whitespaces)             *)
(*     .sentence(text).match(pattern, threshold) on the sentences of the   *)
(* unit tests, with an engine that reports every window of the contract    *)
(***************************************************************************)
\* "Hello world!"
HelloWorld ==
    <<"H", "e", "l", "l", "o", " ", "w", "o", "r", "l", "d", "!">>
\* "How to tell which cat is dominant in the house?"
DominantCat ==
    <<"H", "o", "w", " ", "t", "o", " ", "t", "e", "l", "l", " ", "w", "h",
      "i", "c", "h", " ", "c", "a", "t", " ", "i", "s", " ", "d", "o", "m",
      "i", "n", "a", "n", "t", " ", "i", "n", " ", "t", "h", "e", " ", "h",
      "o", "u", "s", "e", "?">>
Worl == <<"w", "o", "r", "l">>
DominantMan ==
    <<"d", "o", "m", "i", "n", "a", "n", "t", " ", "m", "a", "n">>

\* the sentences and the patterns matched in them
Examples ==
    {[text |-> HelloWorld, pattern |-> Worl],
     [text |-> DominantCat, pattern |-> DominantMan]}

\* the thresholds: 0.7, 0.75, 0.8, 0.85, 0.9
ExampleThresholds ==
    {Score(7, 10), Score(3, 4), Score(4, 5), Score(17, 20), Score(9, 10)}

\* SequenceMatcher.match(bigrams, threshold): every window whose score is
\* above the threshold thr, a fraction
WindowsAbove(seq, query, thr) ==
    {c \in {Candidate(be[1], be[2],
                      Dice(WindowBigrams(seq, be[1], be[2]), query)) :
                be \in EngineSpans(seq)} :
        ScoreLT(thr, c.score)}

\* the windows not reported so far
Unreported(seq, query, thr, sofar) ==
    {c \in WindowsAbove(seq, query, thr) : \A i \in 1..Len(sofar) : sofar[i] # c}

\* ... each reported once, in non-decreasing begin order
WindowsNext(seq, query, thr, sofar) ==
    {c \in Unreported(seq, query, thr, sofar) :
        \A d \in Unreported(seq, query, thr, sofar) : c.begin <= d.begin}

InitExamples ==
    /\ pc = "match"
    /\ \E ex \in Examples :
          /\ text = ex.text
          /\ pattern = ex.pattern
    /\ strip_stopwords \in BOOLEAN
    /\ omit_whitespaces \in BOOLEAN
    /\ threshold \in ExampleThresholds
    /\ sentence = TokenSequence(text, 0)
    /\ bigrams = sequence_bigrams(pattern)
    /\ stream = <<>> /\ best_match = None /\ out = <<>> /\ emitted = <<>>
    /\ IdleTokenise /\ IdleSentences /\ IdleExtract
    /\ IdleConstruct /\ IdleLowercase /\ IdleSerialise
    /\ IdleStitch

\* one iteration of `for match in sentence.matcher.match(bigrams, threshold)`
ExampleCandidate ==
    /\ pc = "match"
    /\ \E m \in WindowsNext(sentence, bigrams, threshold, stream) :
          /\ stream' = Append(stream, m)
          /\ out' = out \o MatchYield(sentence, best_match, m)
          /\ emitted' = emitted \o History(1, 0, MatchYieldWindow(best_match, m))
          /\ best_match' = MatchBest(best_match, m)
    /\ UNCHANGED <<pc, text, tokeniseVars, sentencesVars, matcherVars, sentence,
                   threshold, extractVars,
                   bigramVars, constructVars, lowercaseVars, serialiseVars,
                   stitchVars>>

\* the engine has no more candidates: the last best match is produced
ExampleExhausted ==
    /\ pc = "match"
    /\ Unreported(sentence, bigrams, threshold, stream) = {}
    /\ out' = out \o MatchFlush(sentence, best_match)
    /\ emitted' = emitted \o History(1, 0, MatchFlushWindow(best_match))
    /\ pc' = "done"
    /\ UNCHANGED <<text, tokeniseVars, sentencesVars, matcherVars, sentence,
                   stream, best_match, threshold, extractVars,
                   bigramVars, constructVars, lowercaseVars, serialiseVars,
                   stitchVars>>

NextExamples == ExampleCandidate \/ ExampleExhausted

SpecExamples == InitExamples /\ [][NextExamples]_vars

(***************************************************************************)
(* C18: "worl" in "Hello world!"                                           *)
(***************************************************************************)
DefaultMatcher == strip_stopwords /\ omit_whitespaces

\* C18: with a default Matcher, the pattern "worl" and the text
\* "Hello world!", the threshold 0.85 yields exactly one match, with the
\* span (6, 11) and the score 2*3/(4+3); the threshold 0.9 yields no match;
\* every window the engine reports has a score strictly greater than the
\* threshold.
C18_HelloWorld ==
    (DefaultMatcher /\ text = HelloWorld /\ pattern = Worl) =>
        /\ \A i \in 1..Len(stream) : ScoreLT(threshold, stream[i].score)
        /\ (pc = "done" /\ threshold = Score(17, 20)) =>
              /\ Len(out) = 1
              /\ out[1].begin = 6 /\ out[1].end = 11
              /\ ScoreEQ(out[1].score, Score(2 * 3, 4 + 3))
        /\ (pc = "done" /\ threshold = Score(9, 10)) => out = <<>>

\* the match of "worl" has been produced with the threshold 0.85
C18_Witness ==
    /\ pc = "done"
    /\ DefaultMatcher /\ text = HelloWorld /\ pattern = Worl
    /\ threshold = Score(17, 20)
    /\ Len(stream) = 1
    /\ out = <<[begin |-> 6, end |-> 11, score |-> Score(6, 7)]>>

(***************************************************************************)
(* C19: "dominant man" in "How to tell which cat is dominant in the        *)
(* house?"                                                                 *)
(***************************************************************************)
StopwordExample ==
    /\ pc = "done"
    /\ omit_whitespaces
    /\ text = DominantCat /\ pattern = DominantMan
    /\ threshold = Score(4, 5)

\* C19 as claimed: with the otherwise default options, the pattern
\* "dominant man" and the threshold 0.8, Matcher(strip_stopwords=False)
\* yields exactly one match, with the span (22, 33), and
\* Matcher(strip_stopwords=True) yields exactly one match, with the span
\* (25, 33).
C19_StopwordExampleAsClaimed ==
    StopwordExample =>
        /\ Len(out) = 1
        /\ out[1].begin = (IF strip_stopwords THEN 25 ELSE 22)
        /\ out[1].end = 33

\* C19, what the code does: with the otherwise default options both
\* Matcher(strip_stopwords=False) and Matcher(strip_stopwords=True) yield
\* exactly one match, with the span (25, 33) and the score 2*7/(7+9).
C19_StopwordExampleOfCode ==
    StopwordExample =>
        /\ Len(out) = 1
        /\ out[1].begin = 25 /\ out[1].end = 33
        /\ ScoreEQ(out[1].score, Score(2 * 7, 7 + 9))

\* without stop-word stripping the window "is dominant" has been reported
\* and the match is "dominant"
C19_Witness ==
    /\ StopwordExample
    /\ ~strip_stopwords
    /\ \E i \in 1..Len(stream) :
          make_match(sentence, stream[i]).begin = 22
    /\ Len(out) = 1
    /\ out[1].begin = 25 /\ out[1].end = 33

\* when the whitespace contributes its bigram (omit_whitespaces = False),
\* the spans of the test are produced: (22, 33) without stop-word stripping,
\* (25, 33) with it
C19_SpansWithWhitespaces ==
    (/\ pc = "done" /\ ~omit_whitespaces
     /\ text = DominantCat /\ pattern = DominantMan
     /\ threshold = Score(4, 5)) =>
        /\ Len(out) = 1
        /\ out[1].begin = (IF strip_stopwords THEN 25 ELSE 22)
        /\ out[1].end = 33
        /\ ScoreEQ(out[1].score,
                   IF strip_stopwords THEN Score(2 * 7, 7 + 10)
                   ELSE Score(2 * 8, 9 + 10))

(***************************************************************************)
(* Specification of Matcher.Text.match with an engine that reports its     *)
(* windows in any order                                                    *)
(***************************************************************************)
InitUnordered ==
    /\ pc = "match"
    /\ text \in Strings(SentenceChars, MaxSentenceLen)
    /\ strip_stopwords \in BOOLEAN
    /\ omit_whitespaces = TRUE
    /\ threshold \in 1..ScoreScale
    /\ sentence = TokenSequence(text, 0)
    /\ stream = <<>> /\ best_match = None /\ out = <<>> /\ emitted = <<>>
    /\ IdleTokenise /\ IdleSentences /\ IdleExtract
    /\ IdleBigrams /\ IdleConstruct /\ IdleLowercase /\ IdleSerialise
    /\ IdleStitch

\* one iteration of `for match in sentence.matcher.match(bigrams, threshold)`,
\* whatever the begin of the match
UnorderedCandidate ==
    /\ pc = "match"
    /\ Len(stream) < MaxCandidates
    /\ \E m \in AnyWindows(sentence, threshold) :
          /\ stream' = Append(stream, m)
          /\ out' = out \o MatchYield(sentence, best_match, m)
          /\ emitted' = emitted \o History(1, 0, MatchYieldWindow(best_match, m))
          /\ best_match' = MatchBest(best_match, m)
    /\ UNCHANGED <<pc, text, tokeniseVars, sentencesVars, matcherVars, sentence,
                   threshold, extractVars,
                   bigramVars, constructVars, lowercaseVars, serialiseVars,
                   stitchVars>>

NextUnordered == UnorderedCandidate \/ MatchExhausted

SpecUnordered == InitUnordered /\ [][NextUnordered]_vars

(***************************************************************************)
(* C20: the resolver on a stream that is not ordered                       *)
(***************************************************************************)
\* the stream is in non-decreasing begin order
Ordered(cs) == \A i, j \in 1..Len(cs) : i < j => cs[i].begin <= cs[j].begin

\* C20: the resolver treats a candidate by the begin and the score it has,
\* wherever it comes in the stream: no candidate is refused or moved.  A
\* candidate that begins at or after the end of the best match makes the
\* best match emitted and becomes the best match; any other candidate emits
\* nothing and becomes the best match if there is none or its score is
\* strictly higher.  After the stream the best match is emitted.
C20_UnorderedStream ==
    [][/\ (pc = "match" /\ stream' # stream) =>
            LET m == stream'[Len(stream')] IN
            /\ stream' = Append(stream, m)
            /\ IF best_match # None /\ m.begin >= Value(best_match).end
               THEN /\ Windows' = Append(Windows, Value(best_match))
                    /\ best_match' = Some(m)
               ELSE /\ Windows' = Windows
                    /\ best_match' =
                          IF best_match = None
                          THEN Some(m)
                          ELSE IF ScoreLT(Value(best_match).score, m.score)
                               THEN Some(m)
                               ELSE best_match
       /\ (pc = "match" /\ pc' = "done") =>
            Windows' = (IF best_match = None THEN Windows
                        ELSE Append(Windows, Value(best_match)))
      ]_vars

\* a stream that is not ordered has been resolved and two of the matches
\* emitted overlap
C20_Witness ==
    /\ pc = "done"
    /\ ~Ordered(stream)
    /\ \E i, j \in 1..Len(out) :
          /\ i < j
          /\ Windows[j].begin < Windows[i].end
          /\ out[j].begin < out[i].end

(***************************************************************************)
(* Specification of the resolver of Matcher.Text.match on any finite       *)
(* stream, the loop being run to its end                                   *)
(***************************************************************************)
InitResolver ==
    /\ pc = "match"
    /\ text \in Strings(SentenceChars, MaxSentenceLen)
    /\ strip_stopwords \in BOOLEAN
    /\ omit_whitespaces = TRUE
    /\ threshold \in {ScoreScale - 2, ScoreScale - 1}
    /\ sentence = TokenSequence(text, 0)
    /\ stream = <<>> /\ best_match = None /\ out = <<>> /\ emitted = <<>>
    /\ IdleTokenise /\ IdleSentences /\ IdleExtract
    /\ IdleBigrams /\ IdleConstruct /\ IdleLowercase /\ IdleSerialise
    /\ IdleStitch

\* the for loop takes the next candidate or ends: it does not stop half way
SpecResolver ==
    InitResolver /\ [][NextUnordered]_vars /\ WF_vars(NextUnordered)

(***************************************************************************)
(* C21: flush and termination of the resolver                              *)
(***************************************************************************)
\* a is b with some of its elements left out
RECURSIVE IsSubsequence(_, _)
IsSubsequence(a, b) ==
    IF a = <<>> THEN TRUE
    ELSE IF b = <<>> THEN FALSE
    ELSE IF Head(a) = Head(b) THEN IsSubsequence(Tail(a), Tail(b))
    ELSE IsSubsequence(a, Tail(b))

\* the best match that is still to be emitted
Pending == IF best_match = None THEN <<>> ELSE <<Value(best_match)>>

\* the emitted matches, and the pending best after them while the loop
\* runs, are candidates of the stream, in the order of the stream, each
\* position of the stream used at most once; every match has the score of
\* its candidate; after the loop at least one match is emitted iff the
\* stream is not empty
ResolverState ==
    /\ Len(out) = Len(emitted)
    /\ \A i \in 1..Len(out) : out[i] = make_match(sentence, Windows[i])
    /\ \A i \in 1..Len(out) : out[i].score = Windows[i].score
    /\ pc = "match" => IsSubsequence(Windows \o Pending, stream)
    /\ pc = "match" => (Pending # <<>> <=> stream # <<>>)
    /\ pc = "done" => IsSubsequence(Windows, stream)
    /\ pc = "done" => (out # <<>> <=> stream # <<>>)

\* a step of the loop consumes one candidate, and emits the pending best
\* exactly when the candidate begins at or after its end; the end of the
\* stream emits the pending best and consumes nothing; nothing happens
\* after the loop
ResolverStep ==
    /\ (pc = "match" /\ pc' = "match") =>
          /\ Len(stream') = Len(stream) + 1
          /\ SubSeq(stream', 1, Len(stream)) = stream
          /\ LET m == stream'[Len(stream')] IN
             IF Pending # <<>> /\ m.begin >= Pending[1].end
             THEN Windows' = Windows \o Pending
             ELSE Windows' = Windows
    /\ (pc = "match" /\ pc' = "done") =>
          /\ stream' = stream
          /\ Windows' = Windows \o Pending
    /\ pc = "done" => UNCHANGED vars

\* C21: for every finite candidate stream the resolver consumes each
\* candidate exactly once and terminates; it emits at least one match iff
\* the stream is not empty; the emitted matches are an order-preserving
\* subsequence of the candidates, with their scores; a pending best is
\* emitted exactly when the next candidate does not overlap it or when the
\* stream ends, and never twice.
C21_FlushAndTermination ==
    /\ []ResolverState
    /\ [][ResolverStep]_vars
    /\ <>(pc = "done")

\* a stream of three candidates has been resolved: the first match was
\* emitted by a candidate beyond its end, the second when the stream ended,
\* and one candidate was dropped
C21_Witness ==
    /\ pc = "done"
    /\ Len(stream) = 3
    /\ Len(out) = 2
    /\ Windows[1].end <= Windows[2].begin
    /\ \E i \in 1..3 : ~IsEmitted(stream[i])

(***************************************************************************)
(* Specification of Matcher.text(text).match(pattern, threshold) run side  *)
(* by side with Extractor({pattern: Record()}, threshold).extract(text).   *)
(* Both call Tokeniser.sentences(text), which gives both the same          *)
(* sentences, and for one sentence both engines hold the same bigrams, so  *)
(* that both are given the same candidates in the same order.              *)
(***************************************************************************)
\* the patterns searched
StitchTerms == {<<"b">>, <<"a", "b">>, <<"b", " ", "b">>}

\* the only item of the dictionary
StitchItem == TermAt(dictionary, 1)

InitStitch ==
    /\ pc = "text"
    /\ text \in Strings(ExtractChars, MaxExtractLen)
    /\ strip_stopwords = TRUE /\ omit_whitespaces = TRUE
    /\ pattern \in StitchTerms
    /\ bigrams = sequence_bigrams(pattern)
    /\ threshold \in 1..ScoreScale
    /\ default_threshold = threshold
    /\ dictionary = <<[term |-> pattern, record |-> Record(None)]>>
    /\ sentence_str = <<>> /\ sent_idx = 0 /\ term_idx = 0 /\ offset = 0
    /\ matches = <<>>
    /\ IdleTokenise /\ IdleSentences /\ IdleMatch
    /\ IdleConstruct /\ IdleLowercase /\ IdleSerialise
    /\ IdleStitch

\* Matcher.Text.__init__, one iteration of `for sentence in sentences`
TextSentence ==
    /\ pc = "text"
    /\ \E se \in PunktSlices(text, punkt_end) :
          LET sent == Slice(text, se[1], se[2])
              str  == SentenceYield(text, sent, begin)
          IN  /\ punkt_end' = se[2]
              /\ sentences_out' = Append(sentences_out, str)
              /\ begin' = SentenceEnd(text, sent, begin)
              /\ text_sentences' =
                    Append(text_sentences, TokenSequence(str, text_offset))
              /\ text_offset' = text_offset + Len(str)
    /\ UNCHANGED <<pc, text, tokeniseVars, matcherVars, matchVars, threshold,
                   extractVars, bigramVars, constructVars, lowercaseVars,
                   serialiseVars, text_best, text_out>>

\* the sentences are exhausted: Matcher.text(text) returns; match and
\* extract are called
TextBuilt ==
    /\ pc = "text"
    /\ pc' = "sentence"
    /\ UNCHANGED <<text, tokeniseVars, sentencesVars, matcherVars, matchVars,
                   threshold, extractVars, bigramVars, constructVars,
                   lowercaseVars, serialiseVars, stitchVars>>

\* the next sentence: `for sentence in self._sentences` with its
\* `best_match = None`, and `for sentence_str in matcher.sentences(text)`
\* with matcher.sentence(sentence_str) and the call of its match
StitchSentence ==
    /\ pc = "sentence"
    /\ sent_idx < Len(sentences_out)
    /\ sent_idx' = sent_idx + 1
    /\ term_idx' = 1
    /\ sentence_str' = sentences_out[sent_idx + 1]
    /\ sentence' = TokenSequence(sentences_out[sent_idx + 1], 0)
    /\ stream' = <<>> /\ best_match' = None /\ out' = <<>>
    /\ text_best' = None
    /\ pc' = "candidates"
    /\ UNCHANGED <<text, tokeniseVars, sentencesVars, matcherVars, emitted,
                   threshold, default_threshold, dictionary, offset, matches,
                   bigramVars, constructVars, lowercaseVars, serialiseVars,
                   text_sentences, text_offset, text_out>>

\* both engines produce the candidate m: the loop body of Matcher.Text.match
\* on either side, and an Extractor.Match for the match extract is given
StitchCandidate ==
    /\ pc = "candidates"
    /\ \E m \in DiceNext(sentence, bigrams, threshold, stream) :
          /\ stream' = Append(stream, m)
          /\ out' = out \o MatchYield(sentence, best_match, m)
          /\ matches' = matches \o
                ExtractorMatches(StitchItem, MatchYield(sentence, best_match, m),
                                 offset, sentence_str)
          /\ best_match' = MatchBest(best_match, m)
          /\ text_out' = text_out \o
                MatchYield(text_sentences[sent_idx], text_best, m)
          /\ text_best' = MatchBest(text_best, m)
    /\ UNCHANGED <<pc, text, tokeniseVars, sentencesVars, matcherVars, sentence,
                   emitted, threshold, default_threshold, dictionary,
                   sentence_str, sent_idx, term_idx, offset, bigramVars,
                   constructVars, lowercaseVars, serialiseVars, text_sentences,
                   text_offset>>

\* the engines have no more candidates: the last best match is produced on
\* either side, and extract does offset += len(sentence_str)
StitchExhausted ==
    /\ pc = "candidates"
    /\ out' = out \o MatchFlush(sentence, best_match)
    /\ matches' = matches \o
          ExtractorMatches(StitchItem, MatchFlush(sentence, best_match),
                           offset, sentence_str)
    /\ text_out' = text_out \o MatchFlush(text_sentences[sent_idx], text_best)
    /\ offset' = offset + Len(sentence_str)
    /\ pc' = "sentence"
    /\ UNCHANGED <<text, tokeniseVars, sentencesVars, matcherVars, sentence,
                   stream, best_match, emitted, threshold, default_threshold,
                   dictionary, sentence_str, sent_idx, term_idx, bigramVars,
                   constructVars, lowercaseVars, serialiseVars, text_sentences,
                   text_offset, text_best>>

\* there is no further sentence: match and extract return
StitchReturn ==
    /\ pc = "sentence"
    /\ sent_idx = Len(sentences_out)
    /\ pc' = "done"
    /\ UNCHANGED <<text, tokeniseVars, sentencesVars, matcherVars, matchVars,
                   threshold, extractVars, bigramVars, constructVars,
                   lowercaseVars, serialiseVars, stitchVars>>

NextStitch ==
    \/ TextSentence
    \/ TextBuilt
    \/ StitchSentence
    \/ StitchCandidate
    \/ StitchExhausted
    \/ StitchReturn

SpecStitch == InitStitch /\ [][NextStitch]_vars

(***************************************************************************)
(* C22: the two offset-stitching paths                                     *)
(***************************************************************************)
\* where the k-th sentence starts and ends in the text
SentenceStart(k) == Len(Concat(SubSeq(sentences_out, 1, k - 1)))
SentenceStop(k) == SentenceStart(k) + Len(sentences_out[k])

\* the match lies in one sentence
InOneSentence(m) ==
    \E k \in 1..Len(sentences_out) :
        SentenceStart(k) <= m.begin /\ m.end <= SentenceStop(k)

\* C22: Matcher.text(text).match(pattern, threshold) yields exactly the
\* sequence of (begin, end, score) that Extractor.extract yields for the
\* single term pattern, and no match of either spans a sentence boundary.
C22_PathsAgree ==
    pc \in {"sentence", "candidates", "done"} =>
        /\ Len(text_out) = Len(matches)
        /\ \A i \in 1..Len(matches) :
              /\ text_out[i].begin = matches[i].begin
              /\ text_out[i].end = matches[i].end
              /\ text_out[i].score = matches[i].score
              /\ text_out[i].begin < text_out[i].end
              /\ InOneSentence(text_out[i])
              /\ InOneSentence(matches[i])

\* a match of the second sentence has been yielded on both sides, with the
\* offset of the sentence in it
C22_Witness ==
    /\ pc = "done"
    /\ Len(sentences_out) = 2
    /\ Len(matches) = 2
    /\ matches[2].begin >= SentenceStart(2)
    /\ SentenceStart(2) > 0
    /\ text_out[2].begin = matches[2].begin
    /\ text_out[2].end = matches[2].end

====
